---- MODULE Spec2Model ----
(***************************************************************************)
(* Publication check of release_plz_core (crates/release_plz_core/src/     *)
(* cargo.rs): is_published, the Git and sparse index lookups, the HTTP/2   *)
(* to HTTP/1.1 fallback of fetch_sparse_metadata and the polling loop of   *)
(* wait_until_published.                                                   *)
(*                                                                         *)
(* One behaviour is one invocation of wait_until_published.  The async     *)
(* function is split at its await points (the HTTP requests, the body      *)
(* read, the sleep); the registry may publish the version between them.    *)
(* Time is counted in seconds since `now` was taken (line 227).            *)
(***************************************************************************)
EXTENDS Integers, Sequences, FiniteSets, TLC

\* ---------------------------------------------------------------- bounds
\* Largest `timeout` argument (seconds) tried.
MaxTimeout == 3
\* Longest single network operation (request, body read, git update).
MaxDur == 1
\* Longest crate record (number of version entries) of the initial index.
MaxRecLen == 1

\* ------------------------------------------------------------- constants
\* let sleep_time = Duration::from_secs(2);
SleepTime == 2

\* Version strings are sequences of characters, compared as Rust compares
\* &str: same length and the same character at every position.
V100 == <<"1", ".", "0", ".", "0">>
V100rc1 == V100 \o <<"-", "r", "c", ".", "1">>
vV100 == <<"v">> \o V100

\* package.version is a semver::Version, so its to_string() is canonical.
PkgVersions == {V100, V100rc1}
\* Version strings an index entry may hold (the index stores raw strings).
IndexVersions == {V100, V100rc1, vV100}

PkgName == "demo-crate"
OtherName == "other-crate"
CrateNames == {PkgName, OtherName}

\* Option<Crate>: None, or Some(crate) with the crate's version entries.
None == [some |-> FALSE, versions |-> <<>>]
Some(c) == [some |-> TRUE, versions |-> c]

RECURSIVE SeqsUpTo(_, _)
SeqsUpTo(S, n) ==
    IF n = 0 THEN {<<>>}
    ELSE LET shorter == SeqsUpTo(S, n - 1)
         IN  shorter \cup {Append(s, x) : s \in shorter, x \in S}

\* A Crate holds at least one version; None is "no such crate".
Crates == SeqsUpTo(IndexVersions, MaxRecLen) \ {<<>>}
Records == {Some(c) : c \in Crates} \cup {None}

Durations == 0..MaxDur

VARIABLES
    index,        \* CargoIndex: [kind, crates] (crates: the Git local replica)
    package,      \* Package: [name, version]
    timeout,      \* the `timeout` argument of wait_until_published
    token,        \* Option<SecretString>: "none", "valid", "invalid"
    build_fault,  \* which step of building the request fails, if any
    remote,       \* what the registry / remote origin holds, per crate name
    pc,           \* position in wait_until_published
    clock,        \* whole seconds since `now` (line 227) at the last event
    logged,       \* let mut logged
    res,          \* fetch_sparse_metadata: let mut res
    response,     \* the reqwest::Response held by `res` when it is Ok
    is_pub,       \* the value is_published returned to the loop
    outcome,      \* what wait_until_published returned
    check_start,  \* clock when the current is_published call began
    check_bound,  \* the `timeout` argument of the current is_published call
    update_res,   \* what index.update() returned in the current Git lookup
    origin_up,    \* can the remote origin be reached during the current Git lookup
    attempts,     \* requests executed by the current fetch, in order
    refreshes,    \* index.update() calls of the current Git lookup
    present0,     \* was the version in the registry when the check began
    checks,       \* is_published calls so far
    sleeps,       \* sleeps started so far
    notices,      \* "waiting for the package" notices emitted
    sent          \* requests executed so far, over all checks

vars == <<index, package, timeout, token, build_fault, remote, pc, clock,
          logged, res, response, is_pub, outcome, check_start, attempts,
          refreshes, present0, checks, sleeps, notices, sent, check_bound,
          update_res, origin_up>>

\* ------------------------------------------------------------ Result, errors
NoError == [type |-> "", is_connect |-> FALSE, chain |-> <<>>, ctx |-> <<>>]
NoResult == [tag |-> "None", val |-> FALSE, err |-> NoError]
Ok(v) == [tag |-> "Ok", val |-> v, err |-> NoError]
Err(e) == [tag |-> "Err", val |-> FALSE, err |-> e]
IsOk(r) == r.tag = "Ok"
IsErr(r) == r.tag = "Err"

\* An anyhow context frame: the message, and the package name and duration
\* the message formats into it ("" and -1 when it formats none).
Ctx(msg) == [msg |-> msg, pkg |-> "", dur |-> -1]

\* An error value: its concrete type, reqwest's is_connect(), the chain of
\* std::error::Error::source() below it, and the anyhow contexts around it
\* (outermost first).
Error(type, is_connect, chain) ==
    [type |-> type, is_connect |-> is_connect, chain |-> chain, ctx |-> <<>>]

\* anyhow::Context::context / with_context: wraps an Err, leaves an Ok.
with_context(r, c) ==
    IF IsErr(r) THEN Err([r.err EXCEPT !.ctx = <<c>> \o @]) ELSE r

\* ------------------------------------------------------- pure functions
\* Variant: a.starts_with-style comparison, b may go on after a.
str_eq_prefix(a, b) ==
    /\ Len(a) <= Len(b)
    /\ \A i \in 1..Len(a) : a[i] = b[i]

\* v.version() == version, on &str.
str_eq(a, b) ==
    /\ Len(a) = Len(b)
    /\ \A i \in 1..Len(a) : a[i] = b[i]

\* crate_data.versions().iter().any(|v| v.version() == version)
is_version_present(version, crate_data) ==
    \E i \in 1..Len(crate_data) : str_eq(crate_data[i], version)

is_in_cache(crate_data, version) ==
    IF crate_data.some
    THEN IF is_version_present(version, crate_data.versions) THEN TRUE ELSE FALSE
    ELSE FALSE

\* index.crate_(&package.name), then is_in_cache on package.version.to_string()
is_in_cache_git(crates, pkg) ==
    LET crate_data == crates[pkg.name]
        version == pkg.version
    IN  is_in_cache(crate_data, version)

\* Causes found below a reqwest::Error by source().
H2GoAway == "h2::Error(GoAway)"
H2Reset == "h2::Error(Reset)"
HyperError == "hyper::Error"
IoError == "std::io::Error"

\* error.downcast_ref::<h2::Error>() is Some
is_h2_error(cause) == cause \in {H2GoAway, H2Reset}

\* h2_error.is_go_away()
is_go_away(cause) == cause = H2GoAway

\* The while-let loop of is_h2_go_away over the rest of the source chain.
RECURSIVE go_away_in_sources(_)
go_away_in_sources(source) ==
    IF source = <<>> THEN FALSE
    ELSE IF is_h2_error(Head(source)) /\ is_go_away(Head(source)) THEN TRUE
    ELSE go_away_in_sources(Tail(source))

\* Variant: looks at the immediate source only, not at the whole chain.
is_h2_go_away_first_source(error) ==
    /\ error.chain # <<>>
    /\ is_h2_error(Head(error.chain))
    /\ is_go_away(Head(error.chain))

is_h2_go_away(error) == go_away_in_sources(error.chain)

\* Variant: retries after any reqwest error.
retry_with_http11_any_reqwest(e) == e.type = "reqwest::Error"

\* The match of fetch_sparse_metadata on e.downcast_ref::<reqwest::Error>():
\* Some(e) if e.is_connect() || is_h2_go_away(e).
retry_with_http11(e) ==
    /\ e.type = "reqwest::Error"
    /\ (e.is_connect \/ is_h2_go_away(e))

\* What client.execute(req) can fail with.
ConnectError == Error("reqwest::Error", TRUE, <<HyperError, IoError>>)
GoAwayError == Error("reqwest::Error", FALSE, <<HyperError, H2GoAway>>)
ResetError == Error("reqwest::Error", FALSE, <<HyperError, H2Reset>>)
RequestError == Error("reqwest::Error", FALSE, <<HyperError>>)
ExecuteErrors == {ConnectError, GoAwayError, ResetError, RequestError}

\* Failures of the steps that build the request.
BuildFaults == {"none", "make_cache_request", "try_into", "client_build"}
Tokens == {"none", "valid", "invalid"}
NoRequest == [version |-> "", authorization |-> FALSE, gzip |-> FALSE,
              http2_prior_knowledge |-> FALSE]

\* Variant: a token that is no header value is left out, not rejected.
\* Variant: the token is attached to the HTTP/2 request only.
build_request_no_auth_on_retry(tok, fault, http_version) ==
    IF fault = "make_cache_request"
    THEN [tag |-> "Err", req |-> NoRequest,
          err |-> Error("crates_index::Error", FALSE, <<>>)]
    ELSE IF fault = "try_into"
    THEN [tag |-> "Err", req |-> NoRequest,
          err |-> Error("reqwest::Error", FALSE, <<"url::ParseError">>)]
    ELSE IF tok = "invalid"
    THEN [tag |-> "Err", req |-> NoRequest,
          err |-> [Error("http::header::InvalidHeaderValue", FALSE, <<>>)
                     EXCEPT !.ctx = <<Ctx("parse token as header value")>>]]
    ELSE IF fault = "client_build"
    THEN [tag |-> "Err", req |-> NoRequest,
          err |-> Error("reqwest::Error", FALSE, <<"native_tls::Error">>)]
    ELSE [tag |-> "Ok", err |-> NoError,
          req |-> [version |-> http_version,
                   authorization |-> (tok # "none" /\ http_version = "HTTP_2"),
                   gzip |-> TRUE,
                   http2_prior_knowledge |-> (http_version = "HTTP_2")]]

build_request_skip_bad_token(tok, fault, http_version) ==
    IF fault = "make_cache_request"
    THEN [tag |-> "Err", req |-> NoRequest,
          err |-> Error("crates_index::Error", FALSE, <<>>)]
    ELSE IF fault = "try_into"
    THEN [tag |-> "Err", req |-> NoRequest,
          err |-> Error("reqwest::Error", FALSE, <<"url::ParseError">>)]
    ELSE IF fault = "client_build"
    THEN [tag |-> "Err", req |-> NoRequest,
          err |-> Error("reqwest::Error", FALSE, <<"native_tls::Error">>)]
    ELSE [tag |-> "Ok", err |-> NoError,
          req |-> [version |-> http_version,
                   authorization |-> (tok = "valid"),
                   gzip |-> TRUE,
                   http2_prior_knowledge |-> (http_version = "HTTP_2")]]

\* request_for_sparse_metadata up to client.execute: the request and the
\* client built for http_version, or the first error on the way.
\* [tag, err, req]
build_request(tok, fault, http_version) ==
    IF fault = "make_cache_request"
    THEN [tag |-> "Err", req |-> NoRequest,
          err |-> Error("crates_index::Error", FALSE, <<>>)]
    ELSE IF fault = "try_into"
    THEN [tag |-> "Err", req |-> NoRequest,
          err |-> Error("reqwest::Error", FALSE, <<"url::ParseError">>)]
    ELSE IF tok = "invalid"
    THEN [tag |-> "Err", req |-> NoRequest,
          err |-> [Error("http::header::InvalidHeaderValue", FALSE, <<>>)
                     EXCEPT !.ctx = <<Ctx("parse token as header value")>>]]
    ELSE IF fault = "client_build"
    THEN [tag |-> "Err", req |-> NoRequest,
          err |-> Error("reqwest::Error", FALSE, <<"native_tls::Error">>)]
    ELSE [tag |-> "Ok", err |-> NoError,
          req |-> [version |-> http_version,
                   authorization |-> (tok # "none"),
                   gzip |-> TRUE,
                   http2_prior_knowledge |-> (http_version = "HTTP_2")]]

\* The answer received to the metadata request for `name`.
\* [status, valid: the body decodes as index entries, body: the entries
\* sent, etag: the response carries an ETag or Last-Modified header]
\* 304 can come whatever the registry holds now and whatever the local cache
\* holds (an intermediate cache may answer).
NoResponse == [status |-> 0, valid |-> FALSE, body |-> None, etag |-> FALSE]
StatusOnly(code) == [status |-> code, valid |-> FALSE, body |-> None, etag |-> FALSE]
ServerResponses(reg, name) ==
    (IF reg[name] = None
     THEN {StatusOnly(404), StatusOnly(410), StatusOnly(451)}
     ELSE {[status |-> 200, valid |-> TRUE, body |-> reg[name], etag |-> TRUE],
           [status |-> 200, valid |-> TRUE, body |-> reg[name], etag |-> FALSE],
           [status |-> 200, valid |-> FALSE, body |-> reg[name], etag |-> FALSE]})
    \cup {StatusOnly(304), StatusOnly(401), StatusOnly(500)}

\* index.parse_cache_response(crate_name, res, true) with `cache` the local
\* cache entry of the crate: [tag, err, crate, cache (the entry afterwards)].
\* 200: the decoded body, which is written to the cache (under the
\* response's ETag or Last-Modified, or as version "Unknown" without one);
\* 304: the cache entry; 404, 410, 451: no crate; 401 and every
\* other status: an error.
parse_cache_response(resp, cache) ==
    IF resp.status = 200
    THEN IF ~resp.valid
         THEN [tag |-> "Err", crate |-> None, cache |-> cache,
               err |-> Error("crates_index::Error", FALSE, <<"serde_json::Error">>)]
         ELSE [tag |-> "Ok", crate |-> resp.body, err |-> NoError,
               cache |-> resp.body]
    ELSE IF resp.status = 304
    THEN IF cache.some
         THEN [tag |-> "Ok", crate |-> cache, err |-> NoError, cache |-> cache]
         ELSE [tag |-> "Err", crate |-> None, cache |-> cache,
               err |-> Error("crates_index::Error", FALSE, <<IoError>>)]
    ELSE IF resp.status \in {404, 410, 451}
    THEN [tag |-> "Ok", crate |-> None, err |-> NoError, cache |-> cache]
    ELSE [tag |-> "Err", crate |-> None, cache |-> cache,
          err |-> Error("crates_index::Error", FALSE, <<IoError>>)]

\* res.bytes().await? failing.
BodyError == Error("reqwest::Error", FALSE, <<"hyper::Error(Body)">>)

\* tokio::time::error::Elapsed, as `.await?` converts it.
ElapsedError == Error("tokio::time::error::Elapsed", FALSE, <<>>)

\* The tail of is_published: `.await?` on the Result<_, Elapsed> of
\* tokio::time::timeout, then with_context on the inner result.
is_published_result(elapsed, inner, pkg) ==
    IF elapsed THEN Err(ElapsedError)
    ELSE with_context(inner, [msg |-> "timeout while publishing",
                              pkg |-> pkg.name, dur |-> -1])

\* is_in_cache_sparse, given what fetch_sparse_metadata returned
\* ([tag, crate, err]): the context on a failure, is_in_cache on a crate.
\* Variant: a registry that does not know the package is an error.
is_in_cache_sparse_none_is_error(fetched, pkg) ==
    IF fetched.tag = "Err"
    THEN with_context(Err(fetched.err), Ctx("failed fetching sparse metadata"))
    ELSE IF ~fetched.crate.some
    THEN with_context(Err(Error("crates_index::Error", FALSE, <<>>)),
                      Ctx("failed fetching sparse metadata"))
    ELSE Ok(is_in_cache(fetched.crate, pkg.version))

is_in_cache_sparse(fetched, pkg) ==
    IF fetched.tag = "Err"
    THEN with_context(Err(fetched.err), Ctx("failed fetching sparse metadata"))
    ELSE LET crate_data == fetched.crate
             version == pkg.version
         IN  Ok(is_in_cache(crate_data, version))

FetchErr(e) == [tag |-> "Err", crate |-> None, err |-> e]

\* tokio::time::timeout polls the wrapped future first and looks at its timer
\* only when that future is pending: the deadline can cut the lookup only at
\* an await where it is suspended.
deadline_hits(suspended, spent, limit) == suspended /\ spent > limit

\* The error index.update() fails with.
UpdateError == Error("crates_index::Error", FALSE, <<"git2::Error">>)

\* Variant: after the update the replica is not looked at again.
\* Variant: a refresh that fails is ignored and the stale replica answers.
is_published_git_ignore_update_error(crates, pkg, origin, update_ok) ==
    IF is_in_cache_git(crates, pkg)
    THEN [result |-> Ok(TRUE), crates |-> crates, updates |-> 0]
    ELSE IF ~update_ok
    THEN [result |-> Ok(is_in_cache_git(crates, pkg)), crates |-> crates,
          updates |-> 1]
    ELSE [result |-> Ok(is_in_cache_git(origin, pkg)), crates |-> origin, updates |-> 1]

\* Variant: the replica is refreshed before it is looked at.
is_published_git_update_first(crates, pkg, origin, update_ok) ==
    IF ~update_ok
    THEN [result |-> with_context(Err(UpdateError),
                                  Ctx("failed to update git index")),
          crates |-> crates, updates |-> 1]
    ELSE [result |-> Ok(is_in_cache_git(origin, pkg)), crates |-> origin, updates |-> 1]

\* Variant: a refresh that fails is tried once more.
is_published_git_update_twice(crates, pkg, origin, update_ok) ==
    IF is_in_cache_git(crates, pkg)
    THEN [result |-> Ok(TRUE), crates |-> crates, updates |-> 0]
    ELSE IF ~update_ok
    THEN [result |-> with_context(Err(UpdateError),
                                  Ctx("failed to update git index")),
          crates |-> crates, updates |-> 1 + 1]
    ELSE [result |-> Ok(is_in_cache_git(origin, pkg)), crates |-> origin, updates |-> 1]

is_published_git_no_recheck(crates, pkg, origin, update_ok) ==
    IF is_in_cache_git(crates, pkg)
    THEN [result |-> Ok(TRUE), crates |-> crates, updates |-> 0]
    ELSE IF ~update_ok
    THEN [result |-> with_context(Err(UpdateError),
                                  Ctx("failed to update git index")),
          crates |-> crates, updates |-> 1]
    ELSE [result |-> Ok(FALSE), crates |-> origin, updates |-> 1]

\* is_published_git: [result, crates (the replica afterwards), updates (the
\* index.update() calls made)].  `origin` is what index.update() fetches,
\* `update_ok` whether it succeeds.
is_published_git(crates, pkg, origin, update_ok) ==
    IF is_in_cache_git(crates, pkg)
    THEN [result |-> Ok(TRUE), crates |-> crates, updates |-> 0]
    ELSE IF ~update_ok
    THEN [result |-> with_context(Err(UpdateError),
                                  Ctx("failed to update git index")),
          crates |-> crates, updates |-> 1]
    ELSE [result |-> Ok(is_in_cache_git(origin, pkg)), crates |-> origin, updates |-> 1]

\* The body of the loop of wait_until_published after is_published returned
\* r, at now.elapsed() = elapsed: [next, outcome, info (a notice is emitted),
\* logged].
TimeoutBail(tmo, pkg) ==
    [Error("anyhow::Error", FALSE, <<>>)
       EXCEPT !.ctx = <<[msg |-> "timeout elapsed while publishing the package; publish_timeout can be increased",
                         pkg |-> pkg.name, dur |-> tmo]>>]

\* Variant: a failed check counts as "not yet published".
loop_body_err_as_absent(r, tmo, elapsed, lg, pkg) ==
    IF IsOk(r) /\ r.val
    THEN [next |-> "published", outcome |-> Ok(TRUE), info |-> FALSE, logged |-> lg]
    ELSE IF tmo < elapsed
    THEN [next |-> "expired", outcome |-> Err(TimeoutBail(tmo, pkg)),
          info |-> FALSE, logged |-> lg]
    ELSE [next |-> "sleep", outcome |-> NoResult, info |-> ~lg, logged |-> TRUE]

\* Variant: the notice is not guarded by `logged`.
loop_body_notice_each(r, tmo, elapsed, lg, pkg) ==
    IF IsErr(r)
    THEN [next |-> "failed", outcome |-> r, info |-> FALSE, logged |-> lg]
    ELSE IF r.val
    THEN [next |-> "published", outcome |-> Ok(TRUE), info |-> FALSE, logged |-> lg]
    ELSE IF tmo < elapsed
    THEN [next |-> "expired", outcome |-> Err(TimeoutBail(tmo, pkg)),
          info |-> FALSE, logged |-> lg]
    ELSE [next |-> "sleep", outcome |-> NoResult, info |-> TRUE, logged |-> TRUE]

\* Variant: the loop allows one more pause before it gives up.
loop_body_late_expiry(r, tmo, elapsed, lg, pkg) ==
    IF IsErr(r)
    THEN [next |-> "failed", outcome |-> r, info |-> FALSE, logged |-> lg]
    ELSE IF r.val
    THEN [next |-> "published", outcome |-> Ok(TRUE), info |-> FALSE, logged |-> lg]
    ELSE IF tmo + SleepTime < elapsed
    THEN [next |-> "expired", outcome |-> Err(TimeoutBail(tmo, pkg)),
          info |-> FALSE, logged |-> lg]
    ELSE [next |-> "sleep", outcome |-> NoResult, info |-> ~lg, logged |-> TRUE]

\* Variant: the loop gives up as soon as the elapsed time reaches the timeout.
loop_body_expire_at_equal(r, tmo, elapsed, lg, pkg) ==
    IF IsErr(r)
    THEN [next |-> "failed", outcome |-> r, info |-> FALSE, logged |-> lg]
    ELSE IF r.val
    THEN [next |-> "published", outcome |-> Ok(TRUE), info |-> FALSE, logged |-> lg]
    ELSE IF tmo <= elapsed
    THEN [next |-> "expired", outcome |-> Err(TimeoutBail(tmo, pkg)),
          info |-> FALSE, logged |-> lg]
    ELSE [next |-> "sleep", outcome |-> NoResult, info |-> ~lg, logged |-> TRUE]

\* Variant: after a false result the loop polls again at once, without the
\* pause.
loop_body_no_pause(r, tmo, elapsed, lg, pkg) ==
    IF IsErr(r)
    THEN [next |-> "failed", outcome |-> r, info |-> FALSE, logged |-> lg]
    ELSE IF r.val
    THEN [next |-> "published", outcome |-> Ok(TRUE), info |-> FALSE, logged |-> lg]
    ELSE IF tmo < elapsed
    THEN [next |-> "expired", outcome |-> Err(TimeoutBail(tmo, pkg)),
          info |-> FALSE, logged |-> lg]
    ELSE [next |-> "check", outcome |-> NoResult, info |-> ~lg, logged |-> TRUE]

\* Variant: the elapsed time is tested before the result of the check.
loop_body_expiry_first(r, tmo, elapsed, lg, pkg) ==
    IF IsErr(r)
    THEN [next |-> "failed", outcome |-> r, info |-> FALSE, logged |-> lg]
    ELSE IF tmo < elapsed
    THEN [next |-> "expired", outcome |-> Err(TimeoutBail(tmo, pkg)),
          info |-> FALSE, logged |-> lg]
    ELSE IF r.val
    THEN [next |-> "published", outcome |-> Ok(TRUE), info |-> FALSE, logged |-> lg]
    ELSE [next |-> "sleep", outcome |-> NoResult, info |-> ~lg, logged |-> TRUE]

loop_body(r, tmo, elapsed, lg, pkg) ==
    IF IsErr(r)
    THEN [next |-> "failed", outcome |-> r, info |-> FALSE, logged |-> lg]
    ELSE IF r.val
    THEN [next |-> "published", outcome |-> Ok(TRUE), info |-> FALSE, logged |-> lg]
    ELSE IF tmo < elapsed
    THEN [next |-> "expired", outcome |-> Err(TimeoutBail(tmo, pkg)),
          info |-> FALSE, logged |-> lg]
    ELSE [next |-> "sleep", outcome |-> NoResult, info |-> ~lg, logged |-> TRUE]

\* ------------------------------------------------------------------ Init
\* A second crate of the index, holding every version the package can have.
OtherRecord == Some(<<V100, V100rc1>>)

Terminal == {"published", "expired", "failed"}

Init ==
    /\ package \in [name : {PkgName}, version : PkgVersions]
    /\ timeout \in 0..MaxTimeout
    /\ \E kind \in {"Git", "Sparse"}, rec \in Records :
         /\ remote = [n \in CrateNames |-> IF n = PkgName THEN rec ELSE OtherRecord]
         /\ index = [kind |-> kind,
                     crates |-> IF kind = "Git" THEN remote
                                ELSE [n \in CrateNames |-> None]]
         /\ token \in (IF kind = "Git" THEN {"none"} ELSE Tokens)
         /\ build_fault \in (IF kind = "Git" THEN {"none"} ELSE BuildFaults)
    /\ pc = "check"
    /\ clock = 0
    /\ logged = FALSE
    /\ res = NoResult
    /\ response = NoResponse
    /\ is_pub = NoResult
    /\ outcome = NoResult
    /\ check_start = 0
    /\ check_bound = -1
    /\ update_res = NoResult
    /\ origin_up = TRUE
    /\ attempts = <<>>
    /\ refreshes = 0
    /\ present0 = FALSE
    /\ checks = 0
    /\ sleeps = 0
    /\ notices = 0
    /\ sent = 0

\* --------------------------------------------------------------- actions

\* is_published hands r to the loop at time t.
Returns(r, t) ==
    /\ is_pub' = r
    /\ clock' = t
    /\ pc' = "decide"

\* Variant: each check gets half of the total wait.
lookup_timeout_half(tmo) == tmo \div 2

\* The timeout wait_until_published passes to is_published (line 232).
lookup_timeout(tmo) == tmo

\* Variant: a check that follows a fallback starts with HTTP/1.1.
first_http_version_remembered(requests_sent, checks_done) ==
    IF requests_sent > checks_done THEN "HTTP_11" ELSE "HTTP_2"

\* The protocol of the first request of a fetch (line 133), given the
\* requests sent and the checks made earlier in this invocation.
first_http_version(requests_sent, checks_done) == "HTTP_2"

\* A new is_published call begins.
BeginCheck ==
    /\ checks' = checks + 1
    /\ check_start' = clock
    /\ check_bound' = lookup_timeout(timeout)
    /\ present0' = is_in_cache(remote[package.name], package.version)

\* is_published on a Git index: is_published_git runs to completion inside
\* the first poll of the timeout future.
IsPublishedGit ==
    /\ pc = "check"
    /\ index.kind = "Git"
    /\ BeginCheck
    /\ \E update_ok \in BOOLEAN, d \in Durations :
         LET g == is_published_git(index.crates, package, remote, update_ok)
             spent == IF g.updates = 0 THEN 0 ELSE d
             bound == lookup_timeout(timeout)
             hit == deadline_hits(FALSE, spent, bound)
         IN  /\ index' = [index EXCEPT !.crates = g.crates]
             /\ refreshes' = g.updates
             /\ update_res' = IF g.updates = 0 THEN NoResult
                              ELSE IF update_ok THEN Ok(TRUE)
                              ELSE Err(UpdateError)
             /\ origin_up' = update_ok
             /\ Returns(is_published_result(hit, g.result, package),
                        IF hit THEN clock + bound ELSE clock + spent)
    /\ UNCHANGED <<package, timeout, token, build_fault, remote, logged, res,
                   response, outcome, attempts, sleeps, notices, sent>>

\* request_for_sparse_metadata(index, crate_name, token, http_version) within
\* the is_published call that began at `start`; `retry` tells whether the
\* match on the error (lines 134-152) follows it; `bound` is the timeout of
\* that is_published call.
request_for_sparse_metadata(http_version, start, bound, before, retry) ==
    LET b == build_request(token, build_fault, http_version)
        Fails(e, t) ==
            /\ res' = Err(e)
            /\ response' = NoResponse
            /\ IF retry /\ retry_with_http11(e)
               THEN /\ pc' = "retry"
                    /\ clock' = t
                    /\ UNCHANGED is_pub
               ELSE Returns(is_published_result(FALSE,
                                is_in_cache_sparse(FetchErr(e), package), package), t)
    IN  IF b.tag = "Err"
        THEN /\ attempts' = before
             /\ UNCHANGED sent
             /\ Fails(b.err, clock)
        ELSE \E d \in Durations :
               LET spent == (clock + d) - start
               IN  /\ sent' = sent + 1
                   /\ IF deadline_hits(TRUE, spent, bound)
                      THEN /\ attempts' = Append(before, [req |-> b.req, result |-> NoResult])
                           /\ res' = NoResult
                           /\ response' = NoResponse
                           /\ Returns(is_published_result(TRUE, NoResult, package),
                                      start + bound)
                      ELSE \/ \E e \in ExecuteErrors :
                                LET ce == [e EXCEPT !.ctx = <<Ctx("request_for_sparse_metadata")>>]
                                IN  /\ attempts' = Append(before, [req |-> b.req, result |-> Err(ce)])
                                    /\ Fails(ce, clock + d)
                           \/ \E resp \in ServerResponses(remote, package.name) :
                                /\ attempts' = Append(before, [req |-> b.req, result |-> Ok(TRUE)])
                                /\ res' = Ok(TRUE)
                                /\ response' = resp
                                /\ pc' = "body"
                                /\ clock' = clock + d
                                /\ UNCHANGED is_pub

\* is_published on a sparse index, up to the first request's result:
\* fetch_sparse_metadata line 133 and the match that follows.
RequestHttp2 ==
    /\ pc = "check"
    /\ index.kind = "Sparse"
    /\ BeginCheck
    /\ refreshes' = 0
    /\ request_for_sparse_metadata(first_http_version(sent, checks), clock,
                                   lookup_timeout(timeout), <<>>, TRUE)
    /\ UNCHANGED <<index, package, timeout, token, build_fault, remote, logged,
                   outcome, sleeps, notices, update_res, origin_up>>

\* fetch_sparse_metadata line 148 and `let res = res?`.
RetryHttp11 ==
    /\ pc = "retry"
    /\ request_for_sparse_metadata("HTTP_11", check_start, check_bound,
                                   attempts, FALSE)
    /\ UNCHANGED <<index, package, timeout, token, build_fault, remote, logged,
                   outcome, check_start, refreshes, present0, checks, sleeps,
                   notices, check_bound, update_res, origin_up>>

\* fetch_sparse_metadata lines 155-168: read the body, parse it (which may
\* write the local cache entry); then is_in_cache_sparse and the tail of
\* is_published.
ReadBody ==
    /\ pc = "body"
    /\ \E d \in Durations, body_ok \in BOOLEAN :
         LET spent == (clock + d) - check_start
             cache == index.crates[package.name]
             parsed == parse_cache_response(response, cache)
             fetched == IF ~body_ok THEN FetchErr(BodyError)
                        ELSE [tag |-> parsed.tag, crate |-> parsed.crate,
                              err |-> parsed.err]
         IN  IF deadline_hits(TRUE, spent, check_bound)
             THEN /\ UNCHANGED index
                  /\ Returns(is_published_result(TRUE, NoResult, package),
                             check_start + check_bound)
             ELSE /\ index' = [index EXCEPT !.crates[package.name] =
                                  IF body_ok THEN parsed.cache ELSE cache]
                  /\ Returns(is_published_result(FALSE,
                                 is_in_cache_sparse(fetched, package), package),
                             clock + d)
    /\ UNCHANGED <<package, timeout, token, build_fault, remote, logged,
                   res, response, outcome, check_start, attempts, refreshes,
                   present0, checks, sleeps, notices, sent, check_bound,
                   update_res, origin_up>>

\* now.elapsed() as line 235 reads it when is_published returned at t, in
\* whole seconds rounded up.  `now` is taken before the first check starts
\* and the reading after the check returned, so the reading is later than t,
\* by less than a second; against a timeout of whole seconds
\* `timeout < now.elapsed()` has the same value for the reading and for its
\* rounding up.
now_elapsed(t) == t + 1

\* wait_until_published lines 232-249, once is_published has returned, with
\* `elapsed` the value of now.elapsed() at line 235.
\* When the loop goes on, the finished lookup's locals and record are gone.
Decide(elapsed) ==
    /\ pc = "decide"
    /\ LET step == loop_body(is_pub, timeout, elapsed, logged, package)
       IN  /\ pc' = step.next
           /\ outcome' = step.outcome
           /\ logged' = step.logged
           /\ notices' = IF step.info THEN notices + 1 ELSE notices
           /\ sleeps' = IF step.next = "sleep" THEN sleeps + 1 ELSE sleeps
           /\ IF step.next = "sleep"
              THEN /\ res' = NoResult
                   /\ response' = NoResponse
                   /\ attempts' = <<>>
                   /\ refreshes' = 0
                   /\ present0' = FALSE
                   /\ update_res' = NoResult
                   /\ origin_up' = TRUE
              ELSE UNCHANGED <<res, response, attempts, refreshes, present0,
                               update_res, origin_up>>
    /\ UNCHANGED <<index, package, timeout, token, build_fault, remote, clock,
                   is_pub, check_start, checks, sent, check_bound>>

\* The loop body in an invocation: the elapsed time is read after the check
\* returned at `clock`.
LoopBody == Decide(now_elapsed(clock))

\* tokio::time::sleep(sleep_time).await, then the next iteration.
Sleep ==
    /\ pc = "sleep"
    /\ clock' = clock + SleepTime
    /\ pc' = "check"
    /\ UNCHANGED <<index, package, timeout, token, build_fault, remote, logged,
                   res, response, is_pub, outcome, check_start, attempts,
                   refreshes, present0, checks, sleeps, notices, sent,
                   check_bound, update_res, origin_up>>

\* The registry makes the version visible (cargo publish has propagated).
RegistryPublish ==
    /\ pc \notin Terminal
    /\ ~is_in_cache(remote[package.name], package.version)
    /\ remote' = [remote EXCEPT ![package.name] =
                     Some(Append(@.versions, package.version))]
    /\ UNCHANGED <<index, package, timeout, token, build_fault, pc, clock,
                   logged, res, response, is_pub, outcome, check_start,
                   attempts, refreshes, present0, checks, sleeps, notices, sent,
                   check_bound, update_res, origin_up>>

Next ==
    \/ IsPublishedGit
    \/ RequestHttp2
    \/ RetryHttp11
    \/ ReadBody
    \/ LoopBody
    \/ Sleep
    \/ RegistryPublish

Spec == Init /\ [][Next]_vars

\* ------------------------------------------- the loop body on its own

\* The largest reading of now.elapsed() given to the loop body on its own.
MaxElapsed == MaxTimeout + SleepTime

\* The failures fetch_sparse_metadata can return once the request is built:
\* of client.execute (line 215-218), of res.bytes() (line 163) and of
\* parse_cache_response (line 166).
FetchErrors ==
    {[e EXCEPT !.ctx = <<Ctx("request_for_sparse_metadata")>>] : e \in ExecuteErrors}
    \cup {BodyError}
    \cup {parse_cache_response(resp, None).err :
            resp \in {r \in UNION {ServerResponses([n \in CrateNames |-> rec], PkgName) :
                                     rec \in Records} :
                        parse_cache_response(r, None).tag = "Err"}}

\* What the lookup inside is_published (lines 75-78) can return.
LookupResults(kind, pkg, tok, fault) ==
    IF kind = "Git"
    THEN {is_published_git([n \in CrateNames |-> rec], pkg,
                           [n \in CrateNames |-> origin], update_ok).result :
            rec \in Records, origin \in Records, update_ok \in BOOLEAN}
    ELSE IF build_request(tok, fault, "HTTP_2").tag = "Err"
    THEN {is_in_cache_sparse(FetchErr(build_request(tok, fault, "HTTP_2").err), pkg)}
    ELSE {is_in_cache_sparse(FetchErr(e), pkg) : e \in FetchErrors}
         \cup {is_in_cache_sparse([tag |-> "Ok", crate |-> rec, err |-> NoError], pkg) :
                 rec \in Records}

\* The results is_published can hand to the loop (lines 74-81): the Elapsed
\* error on a sparse index with a request under way, or the lookup's result
\* under the context of line 81.
CheckResults(kind, pkg, tok, fault) ==
    {is_published_result(FALSE, r, pkg) : r \in LookupResults(kind, pkg, tok, fault)}
    \cup (IF kind = "Sparse" /\ build_request(tok, fault, "HTTP_2").tag = "Ok"
          THEN {is_published_result(TRUE, NoResult, pkg)}
          ELSE {})

\* Any first iteration of the loop at line 233: is_published has returned
\* any of its results and now.elapsed() reads any value (held in clock).
InitLoop ==
    /\ package \in [name : {PkgName}, version : PkgVersions]
    /\ timeout \in 0..MaxTimeout
    /\ clock \in 0..MaxElapsed
    /\ logged \in BOOLEAN
    /\ remote = [n \in CrateNames |-> OtherRecord]
    /\ \E kind \in {"Git", "Sparse"} :
         /\ index = [kind |-> kind,
                     crates |-> IF kind = "Git" THEN remote
                                ELSE [n \in CrateNames |-> None]]
         /\ token \in (IF kind = "Git" THEN {"none"} ELSE Tokens)
         /\ build_fault \in (IF kind = "Git" THEN {"none"} ELSE BuildFaults)
    /\ is_pub \in CheckResults(index.kind, package, token, build_fault)
    /\ pc = "decide"
    /\ res = NoResult
    /\ response = NoResponse
    /\ outcome = NoResult
    /\ check_start = 0
    /\ check_bound = lookup_timeout(timeout)
    /\ update_res = NoResult
    /\ origin_up = TRUE
    /\ attempts = <<>>
    /\ refreshes = 0
    /\ present0 = FALSE
    /\ checks = 1
    /\ sleeps = 0
    /\ notices = 0
    /\ sent = 0

\* The loop body applied to the reading held in clock.
LoopDecision == Decide(clock)

NextLoop == LoopDecision

SpecLoop == InitLoop /\ [][NextLoop]_vars

\* ================================================================ claims
Last(seq) == seq[Len(seq)]
Finished == {"decide"} \cup Terminal
HasCtx(e, msg) == \E i \in DOMAIN e.ctx : e.ctx[i].msg = msg

\* A connection-level failure, or an HTTP/2 GOAWAY anywhere among the causes.
FallbackCause(r) ==
    /\ IsErr(r)
    /\ r.err.type = "reqwest::Error"
    /\ (r.err.is_connect \/ \E i \in DOMAIN r.err.chain : r.err.chain[i] = H2GoAway)

\* The same underlying failure, whatever contexts were added around it.
SameFailure(e1, e2) ==
    /\ e1.type = e2.type
    /\ e1.is_connect = e2.is_connect
    /\ e1.chain = e2.chain

\* C1: one fetch_sparse_metadata issues at most two requests, the first over
\* HTTP/2; a second one is issued, over HTTP/1.1, exactly when the first
\* failed with a connection error or with a GOAWAY anywhere in its cause
\* chain; there is never a third; and the fetch continues with, or fails
\* with, the result of the last request issued.
C1_FallbackOnce ==
    /\ Len(attempts) <= 2
    /\ Len(attempts) >= 1 => attempts[1].req.version = "HTTP_2"
    /\ Len(attempts) = 2 =>
         /\ attempts[2].req.version = "HTTP_11"
         /\ FallbackCause(attempts[1].result)
    /\ (Len(attempts) >= 1 /\ FallbackCause(attempts[1].result) /\ pc # "retry")
         => Len(attempts) = 2
    /\ pc = "retry" => Len(attempts) = 1 /\ FallbackCause(attempts[1].result)
    /\ attempts # <<>> =>
         /\ res = Last(attempts).result
         /\ pc = "body" => IsOk(Last(attempts).result)
         /\ (pc \in Finished /\ IsErr(Last(attempts).result)) =>
              /\ IsErr(is_pub)
              /\ SameFailure(is_pub.err, Last(attempts).result.err)

\* C1 witness: the HTTP/2 request failed with a GOAWAY below the top-level
\* cause, the HTTP/1.1 request failed too, and the fetch ended there.
C1_Witness ==
    /\ pc = "failed"
    /\ Len(attempts) = 2
    /\ attempts[1].result = Err([GoAwayError EXCEPT !.ctx = <<Ctx("request_for_sparse_metadata")>>])
    /\ IsErr(attempts[2].result)
    /\ SameFailure(outcome.err, attempts[2].result.err)

\* C9: an HTTP/2 failure that is neither a connection failure nor a GOAWAY
\* reaches the caller with no second request; so does a failure to build the
\* request or the client (no request at all); and a failure to read or parse
\* the body of a successful response is followed by no request.
C9_NoRetryOtherwise ==
    /\ (Len(attempts) >= 1 /\ IsErr(attempts[1].result)
          /\ ~FallbackCause(attempts[1].result)) =>
         /\ Len(attempts) = 1
         /\ pc \in Finished
         /\ IsErr(is_pub)
         /\ SameFailure(is_pub.err, attempts[1].result.err)
         /\ pc = "failed" => outcome = is_pub
    /\ (attempts = <<>> /\ IsErr(res)) =>
         /\ pc \in Finished
         /\ sent = 0
         /\ IsErr(is_pub)
         /\ SameFailure(is_pub.err, res.err)
    /\ (pc \in Finished /\ IsErr(is_pub) /\ IsOk(res)) =>
         /\ IsOk(Last(attempts).result)
         /\ \/ SameFailure(is_pub.err, BodyError)
            \/ is_pub.err.type = "crates_index::Error"
            \/ is_pub.err = ElapsedError
         /\ pc = "failed" => outcome = is_pub

\* C9 witness: the HTTP/2 request failed with a stream reset (an h2 error
\* that is no GOAWAY) and wait_until_published failed with it after that one
\* request.
C9_Witness ==
    /\ pc = "failed"
    /\ Len(attempts) = 1
    /\ SameFailure(attempts[1].result.err, ResetError)
    /\ SameFailure(outcome.err, ResetError)

\* C9 second case reached: the response arrived and its body did not parse.
C9_WitnessParse ==
    /\ pc = "failed"
    /\ IsOk(res)
    /\ response.status = 200 /\ ~response.valid
    /\ outcome.err.type = "crates_index::Error"

\* C10 as stated: with a token that is no header value the lookup fails with
\* the token error, and no request is sent.
C10_Claim ==
    (token = "invalid") =>
        /\ sent = 0
        /\ attempts = <<>>
        /\ pc \notin {"retry", "body", "sleep", "published", "expired"}
        /\ pc \in Finished =>
             /\ IsErr(is_pub)
             /\ is_pub.err.type = "http::header::InvalidHeaderValue"
             /\ HasCtx(is_pub.err, "parse token as header value")

\* C10 amended: with a token that is no header value the lookup fails while
\* the request is built and no request is ever sent, over HTTP/2 or
\* HTTP/1.1; the failure is the token error unless building the request from
\* the index (make_cache_request, the conversion to a reqwest request)
\* failed first.
C10_NoRequestOnBadToken ==
    (token = "invalid") =>
        /\ sent = 0
        /\ attempts = <<>>
        /\ pc \notin {"retry", "body", "sleep", "published", "expired"}
        /\ pc \in Finished =>
             /\ IsErr(is_pub)
             /\ HasCtx(is_pub.err, "failed fetching sparse metadata")
             /\ build_fault \notin {"make_cache_request", "try_into"} =>
                  /\ is_pub.err.type = "http::header::InvalidHeaderValue"
                  /\ HasCtx(is_pub.err, "parse token as header value")

\* C10 witness: the token was rejected while the request was built and
\* wait_until_published failed with that error, nothing sent.
C10_Witness ==
    /\ token = "invalid"
    /\ pc = "failed"
    /\ outcome.err.type = "http::header::InvalidHeaderValue"
    /\ sent = 0

\* The version is among the entries of a crate record (None has none).
Holds(rec, version) ==
    /\ rec.some
    /\ \E i \in DOMAIN rec.versions : rec.versions[i] = version

\* One of the actions of wait_until_published itself (not the registry).
Progress == IsPublishedGit \/ RequestHttp2 \/ RetryHttp11 \/ ReadBody \/ LoopBody \/ Sleep

C2_WitnessStale ==
    /\ pc = "decide"
    /\ present0
    /\ response.status = 304
    /\ is_pub = Ok(FALSE)

\* C3: a check that fails ends the loop with that failure at once: the next
\* step of the loop returns it, with no sleep, no further check and no
\* notice; and the loop goes to sleep only after a check that returned
\* Ok(false).
C3_Step ==
    /\ (pc = "decide" /\ IsErr(is_pub)) =>
         /\ pc' \in {"decide", "failed"}
         /\ pc' = "failed" => outcome' = is_pub
         /\ UNCHANGED <<notices, sleeps, checks, sent, clock, logged>>
    /\ pc = "failed" => UNCHANGED <<pc, notices, sleeps, checks, sent, clock>>
    /\ (pc' = "sleep" /\ pc # "sleep") => is_pub = Ok(FALSE)
    /\ (checks' # checks /\ checks > 0) => is_pub = Ok(FALSE)

C3_FailureEndsLoop == [][C3_Step]_vars

\* C3 witness: a later check (after a wait) failed and the loop returned
\* that failure without another sleep.
C3_Witness ==
    /\ pc = "failed"
    /\ checks >= 2
    /\ sleeps = checks - 1
    /\ IsErr(is_pub)
    /\ outcome = is_pub

\* C7: the waiting notice is emitted at most once per invocation, and it has
\* been emitted exactly when the loop has entered the waiting state at least
\* once.
C7_NoticeOnce ==
    /\ notices <= 1
    /\ notices = (IF sleeps >= 1 THEN 1 ELSE 0)
    /\ logged <=> (notices = 1)
    /\ (checks <= 1 /\ pc \in Terminal) => notices = 0

\* C7 witness: the loop has entered the waiting state twice and one notice
\* was emitted.
C7_Witness ==
    /\ sleeps >= 2
    /\ notices = 1

\* The record the finished lookup tested: the replica (Git), the parsed
\* response (sparse).
RecordTested ==
    IF index.kind = "Git" THEN index.crates[package.name]
    ELSE IF response.status = 200 /\ response.valid THEN response.body
    ELSE IF response.status = 304 THEN index.crates[package.name]
    ELSE None

\* C8: a lookup that completes reports present if and only if some version
\* string of the record it tested equals the requested version string.
C8_ExactMatch ==
    (pc \in Finished /\ IsOk(is_pub)) =>
        (is_pub.val <=> Holds(RecordTested, package.version))

\* C8 witness: the record holds "1.0.0" only, the lookup was for
\* "1.0.0-rc.1", and it reported absent.
C8_Witness ==
    /\ pc = "decide"
    /\ is_pub = Ok(FALSE)
    /\ package.version = V100rc1
    /\ RecordTested = Some(<<V100>>)

\* The error says it is a timeout.
SaysTimeout(e) ==
    \/ e.type = ElapsedError.type
    \/ HasCtx(e, "timeout while publishing")

\* C4 as stated: when is_published fails because the bound elapsed, the
\* error names the package and carries the bound; a failure of the lookup
\* for another reason is not reported as a timeout; and wait_until_published
\* returns either of them unchanged.
C4_Claim ==
    (pc \in Finished /\ IsErr(is_pub)) =>
        /\ is_pub.err.type = ElapsedError.type =>
             /\ \E i \in DOMAIN is_pub.err.ctx : is_pub.err.ctx[i].pkg = package.name
             /\ \E i \in DOMAIN is_pub.err.ctx : is_pub.err.ctx[i].dur = timeout
        /\ is_pub.err.type # ElapsedError.type => ~SaysTimeout(is_pub.err)
        /\ pc = "failed" => outcome = is_pub

\* C4, first half alone: the per-check timeout error names the package.
C4_ClaimElapsedNamesPackage ==
    (pc \in Finished /\ IsErr(is_pub) /\ is_pub.err.type = ElapsedError.type) =>
        \E i \in DOMAIN is_pub.err.ctx : is_pub.err.ctx[i].pkg = package.name

\* C4, second half alone: no other failure is reported as a timeout.
C4_ClaimOthersNotTimeout ==
    (pc \in Finished /\ IsErr(is_pub) /\ is_pub.err.type # ElapsedError.type) =>
        ~SaysTimeout(is_pub.err)

\* C5 as stated: for either index variant is_published returns no later
\* than its bound after it was called (with the timeout failure if the
\* lookup has not completed by then).
C5_Claim ==
    pc \in Finished => clock - check_start <= timeout

\* C5 restricted to the variant where it holds: on a sparse index
\* is_published returns within its bound.
C5_SparseBounded ==
    (pc \in Finished /\ index.kind = "Sparse") => clock - check_start <= timeout

\* The step is a whole is_published call on a Git index.
GitLookupStep == pc = "check" /\ index.kind = "Git" /\ pc' = "decide"

\* C6: is_published_git returns true without a refresh and without touching
\* the replica when the version is in it; otherwise it refreshes exactly
\* once, and if the refresh succeeds the replica equals the origin and the
\* result is whether the version is in it.  A result is true if and only if
\* the version was in the replica before, or is in it after the refresh.
C6_Step ==
    GitLookupStep =>
        LET before == Holds(index.crates[package.name], package.version)
            after == Holds(index'.crates[package.name], package.version)
        IN  /\ before => /\ is_pub' = Ok(TRUE)
                         /\ refreshes' = 0
                         /\ index' = index
                         /\ clock' = clock
            /\ ~before => /\ refreshes' = 1
                          /\ IsOk(is_pub') =>
                               /\ index'.crates = remote
                               /\ is_pub'.val = Holds(remote[package.name], package.version)
                          /\ IsErr(is_pub') => index' = index
            /\ IsOk(is_pub') => (is_pub'.val <=> (before \/ after))
            /\ sent' = sent /\ attempts' = attempts

C6_GitLookup == [][C6_Step]_vars

\* C6 witness: the version was not in the replica, the origin had it, one
\* refresh was made and the lookup reported present.
C6_Witness ==
    /\ index.kind = "Git"
    /\ pc = "decide"
    /\ refreshes = 1
    /\ is_pub = Ok(TRUE)
    /\ present0

\* C6, absent case reached: one refresh, the version in neither, false.
C6_WitnessAbsent ==
    /\ index.kind = "Git"
    /\ pc = "decide"
    /\ refreshes = 1
    /\ is_pub = Ok(FALSE)
    /\ ~Holds(remote[package.name], package.version)

\* C11 as stated, for a caller that wants each check bounded by half of the
\* total wait: on a sparse index, where the per-check bound is enforced, a
\* check returns within that smaller bound.
C11_Claim ==
    (index.kind = "Sparse" /\ pc \in Finished /\ timeout >= 2) =>
        clock - check_start <= timeout \div 2

\* C11 amended: wait_until_published takes one duration and uses it both as
\* the bound of every check and as the total wait: the bound of a check
\* always equals the total wait timeout, a check on a sparse index is cut
\* exactly when that much time has passed in it, and the loop's own timeout
\* failure quotes the same value.
C11_OneTimeout ==
    /\ checks >= 1 => check_bound = timeout
    /\ (index.kind = "Sparse" /\ pc \in Finished) => clock - check_start <= timeout
    /\ (pc \in Finished /\ IsErr(is_pub) /\ is_pub.err = ElapsedError) =>
         clock - check_start = timeout
    /\ pc = "expired" => outcome.err.ctx[1].dur = check_bound

\* C11 witness: a single check ran for the whole total wait (2 s or more)
\* before the per-check bound cut it.
C11_Witness ==
    /\ pc = "decide"
    /\ is_pub = Err(ElapsedError)
    /\ timeout >= 2
    /\ clock - check_start = timeout
    /\ check_bound = timeout

\* C12 as stated, for the loop body given any reading of the elapsed time:
\* after a false result the loop waits only while the elapsed time is under
\* the timeout, and gives up whenever it is not under it.
C12_Claim ==
    /\ pc = "sleep" => clock < timeout
    /\ pc = "expired" => clock >= timeout

\* C12 amended: after a false result the loop waits if the elapsed time is
\* at most the timeout and gives up, with an error carrying the timeout and
\* the package name, only if the elapsed time exceeds it: a false result at
\* elapsed = timeout starts another pause and check.
C12_ExpiryStrict ==
    /\ pc = "sleep" => clock <= timeout /\ is_pub = Ok(FALSE)
    /\ pc = "expired" =>
         /\ clock > timeout
         /\ is_pub = Ok(FALSE)
         /\ outcome.err.ctx[1].dur = timeout
         /\ outcome.err.ctx[1].pkg = package.name
    /\ (pc \in Terminal /\ is_pub = Ok(FALSE)) => pc = "expired"
    /\ (pc # "decide" /\ is_pub = Ok(FALSE)) =>
         (pc = "sleep" <=> clock <= timeout)

\* C12 witness: a false result was seen at elapsed = timeout > 0 and the
\* loop went to sleep again.
C12_Witness ==
    /\ pc = "sleep"
    /\ is_pub = Ok(FALSE)
    /\ clock = timeout
    /\ timeout > 0

\* C13: the loop ends with success only from a check that returned true;
\* every check that returns true ends it with success, also when the elapsed
\* time already exceeds the timeout; the loop never ends before one check
\* was made, whatever the timeout (zero included), because the elapsed time
\* is looked at only after a false result.
C13_TrueEndsLoop ==
    /\ pc = "published" => is_pub = Ok(TRUE) /\ outcome = Ok(TRUE)
    /\ (pc \in Terminal /\ is_pub = Ok(TRUE)) => pc = "published"
    /\ pc \in Terminal => checks >= 1
    /\ pc \in {"sleep", "expired"} => is_pub = Ok(FALSE)

\* C13 witness: a check returned true after the total wait had run out, and
\* the loop ended with success.
C13_Witness ==
    /\ pc = "published"
    /\ clock > timeout
    /\ checks >= 2

\* C13 witness: with a timeout of zero one check was still made.
C13_WitnessZero ==
    /\ pc \in Terminal
    /\ timeout = 0
    /\ checks = 1

\* C14: checks and pauses alternate.  Before a check starts there have been
\* as many pauses as checks, a pause starts only after a check that returned
\* false, every pause lasts SleepTime, and the loop ends only from a check
\* that came after the last pause, never from the pause itself.
C14_PauseBetweenChecks ==
    /\ pc \in {"check", "sleep"} => sleeps = checks
    /\ pc \in {"retry", "body", "decide"} \cup Terminal => checks = sleeps + 1
    /\ pc = "sleep" => is_pub = Ok(FALSE) /\ outcome = NoResult
    /\ pc # "sleep" => clock >= SleepTime * sleeps
    /\ pc = "sleep" => clock >= SleepTime * (sleeps - 1)

\* C14 witness: the loop ended from its third check, after two pauses.
C14_Witness ==
    /\ pc \in Terminal
    /\ checks = 3
    /\ sleeps = 2

\* C15: across one is_published call on a Git index.  When the version is
\* in the local replica before the call, no refresh is attempted, the call
\* does not fail and returns true, whether or not the remote can be reached.
\* Otherwise one refresh is attempted, and when the remote cannot be reached
\* it fails and the call fails with that error in the context "failed to
\* update git index", never reporting false.  Nothing but a failed refresh
\* makes the call fail.
C15_Step ==
    GitLookupStep =>
        LET in_replica == Holds(index.crates[package.name], package.version)
        IN  /\ in_replica =>
                 /\ refreshes' = 0
                 /\ update_res' = NoResult
                 /\ is_pub' = Ok(TRUE)
            /\ (~in_replica /\ ~origin_up') =>
                 /\ refreshes' = 1
                 /\ update_res' = Err(UpdateError)
                 /\ IsErr(is_pub')
                 /\ SameFailure(is_pub'.err, UpdateError)
                 /\ HasCtx(is_pub'.err, "failed to update git index")
            /\ IsErr(is_pub') =>
                 /\ ~in_replica
                 /\ ~origin_up'
                 /\ update_res' = Err(UpdateError)
            /\ is_pub' = Ok(FALSE) => update_res' = Ok(TRUE) /\ origin_up'

C15_GitRefreshFailure == [][C15_Step]_vars

\* C15 witness: the replica had the version, the remote could not be
\* reached, and the call returned true without a refresh.
C15_Witness ==
    /\ index.kind = "Git"
    /\ pc = "published"
    /\ ~origin_up
    /\ refreshes = 0
    /\ update_res = NoResult
    /\ is_pub = Ok(TRUE)

\* C15, first case reached: the refresh failed and the loop ended with its
\* error.
C15_WitnessRefreshFailed ==
    /\ index.kind = "Git"
    /\ pc = "failed"
    /\ ~origin_up
    /\ update_res = Err(UpdateError)
    /\ refreshes = 1
    /\ IsErr(outcome)

\* C16: one is_published call makes one index lookup and does not retry it:
\* on a Git index at most one refresh and no request; on a sparse index no
\* refresh and one fetch of at most two requests, the second one HTTP/1.1
\* after an HTTP/2 one.
C16_OneLookup ==
    /\ index.kind = "Git" => refreshes <= 1 /\ attempts = <<>> /\ sent = 0
    /\ index.kind = "Sparse" =>
         /\ refreshes = 0
         /\ Len(attempts) <= 2
         /\ Len(attempts) = 2 =>
              /\ attempts[1].req.version = "HTTP_2"
              /\ attempts[2].req.version = "HTTP_11"
              /\ IsErr(attempts[1].result)

\* C16 witness: both requests of a fetch failed and is_published returned
\* the error without a third request.
C16_Witness ==
    /\ index.kind = "Sparse"
    /\ pc = "decide"
    /\ Len(attempts) = 2
    /\ IsErr(attempts[2].result)
    /\ IsErr(is_pub)

\* The parser reported no crate record for the response of this check.
ParserSaysUnknown ==
    LET parsed == parse_cache_response(response, index.crates[package.name])
    IN  parsed.tag = "Ok" /\ ~parsed.crate.some

\* C17: when the registry does not know the package (status 404, 410 or
\* 451: the parser yields None), a sparse lookup that returns a result
\* returns false, and fails only if the deadline passed or the body could
\* not be read; a Git lookup whose refreshed replica has no record of the
\* package returns false.  The loop then goes on as after any false result.
C17_UnknownIsAbsent ==
    /\ (index.kind = "Sparse" /\ pc \in Finished /\ res = Ok(TRUE)) =>
         /\ response.status \in {404, 410, 451} => ParserSaysUnknown
         /\ ParserSaysUnknown =>
              /\ is_pub # Ok(TRUE)
              /\ IsErr(is_pub) =>
                   \/ is_pub.err = ElapsedError
                   \/ SameFailure(is_pub.err, BodyError)
              /\ pc \in Terminal =>
                   pc = (IF IsErr(is_pub) THEN "failed" ELSE "expired")
    /\ (index.kind = "Git" /\ pc \in Finished /\ update_res = Ok(TRUE)
          /\ ~index.crates[package.name].some) => is_pub = Ok(FALSE)

\* C17 witness: the registry answered that the package is gone (410) to the
\* last of several checks, each check returned false, and the loop ended
\* with the timeout error.
C17_Witness ==
    /\ index.kind = "Sparse"
    /\ pc = "expired"
    /\ checks >= 2
    /\ response.status = 410
    /\ ParserSaysUnknown
    /\ is_pub = Ok(FALSE)

\* C17, the other statuses reached: 404 and 451 end the same way.
C17_WitnessNotFound ==
    /\ index.kind = "Sparse"
    /\ pc = "expired"
    /\ response.status = 404
    /\ is_pub = Ok(FALSE)

C17_WitnessLegal ==
    /\ index.kind = "Sparse"
    /\ pc = "expired"
    /\ response.status = 451
    /\ is_pub = Ok(FALSE)

\* C17, Git case reached: the refreshed replica has no record of the
\* package and the lookups returned false until the timeout.
C17_WitnessGit ==
    /\ index.kind = "Git"
    /\ pc = "expired"
    /\ update_res = Ok(TRUE)
    /\ ~index.crates[package.name].some

\* C18: every request of a fetch carries the Authorization header if and
\* only if a token was supplied, asks for gzip, and uses HTTP/2 prior
\* knowledge if and only if it is the HTTP/2 request; the HTTP/1.1 retry
\* differs from the HTTP/2 request in the protocol only.
C18_SameRequest ==
    /\ \A i \in DOMAIN attempts :
         /\ attempts[i].req.authorization = (token # "none")
         /\ attempts[i].req.gzip
         /\ attempts[i].req.http2_prior_knowledge
              = (attempts[i].req.version = "HTTP_2")
    /\ Len(attempts) = 2 =>
         /\ attempts[2].req.version # attempts[1].req.version
         /\ [attempts[2].req EXCEPT !.version = "HTTP_2",
                                    !.http2_prior_knowledge = TRUE]
              = attempts[1].req

\* C18 witness: a fetch with a token sent both requests.
C18_Witness ==
    /\ Len(attempts) = 2
    /\ token = "valid"
    /\ attempts[2].req.authorization
    /\ attempts[2].req.version = "HTTP_11"

\* C19: the fallback is not remembered: the first request of every check is
\* an HTTP/2 request, an HTTP/1.1 request is only ever the second request of
\* a check whose HTTP/2 request failed, and k checks send at most 2k
\* requests.
C19_FallbackNotRemembered ==
    /\ attempts # <<>> => attempts[1].req.version = "HTTP_2"
    /\ \A i \in DOMAIN attempts :
         attempts[i].req.version = "HTTP_11" =>
             i = 2 /\ FallbackCause(attempts[1].result)
    /\ sent <= 2 * checks

\* C19 witness: the first check fell back to HTTP/1.1, and the second check
\* started with HTTP/2 again.
C19_Witness ==
    /\ checks = 2
    /\ Len(attempts) >= 1
    /\ sent - Len(attempts) = 2
    /\ attempts[1].req.version = "HTTP_2"

====
